---- MODULE Spec2Model ----
(***************************************************************************)
(* Model of the BAC estimation tools of this repository:                   *)
(*   - bac_tracker.py / bac_ui.py : BACSession, the per-drink absorption   *)
(*     model;                                                              *)
(*   - bloodalc.py : the multi-profile, multi-model application.           *)
(* The variable program records which of the two scripts was started.      *)
(*                                                                         *)
(* Python floats are modelled in fixed point on the integers:              *)
(*   time            minutes                                               *)
(*   ounces, ml, kg  whole units                                           *)
(*   percent ABV     whole percent                                         *)
(*   grams           milligrams                                            *)
(*   r-factors       hundredths                                            *)
(*   BAC             millionths of a percent (of a g/dL in bloodalc.py)    *)
(*   beta            millionths of a percent per hour                      *)
(*   fraction        FRAC_ONE-ths                                          *)
(* A float division is FDiv: it raises ZeroDivisionError on a zero         *)
(* divisor, as Python does, and otherwise truncates towards zero.          *)
(***************************************************************************)
EXTENDS Integers, Sequences, FiniteSets, TLC

VARIABLES
    program,           \* the script that was started: "bac_tracker" or "bloodalc"
    now,               \* the wall clock, datetime.now(), in minutes
    person,            \* BACSession.person
    drinks,            \* BACSession.drinks
    out,               \* what the last call into the session returned
    profiles,          \* BloodAlcCalcApp.profiles
    app_drinks,        \* BloodAlcCalcApp.drinks (the catalog)
    consumed,          \* BloodAlcCalcApp.consumed
    selected_profile,  \* BloodAlcCalcApp.selected_profile
    drink_cb,          \* CalculateFrame.drink_cb, the drink picked in the combobox
    app_out,           \* what the last handler of the application produced
    window,            \* the Tk root: "open", "destroyed", or "failed" (__init__ raised)
    data_file          \* DATA_FILE, the content of ~/bloodalc_data.json

vars == <<program, now, person, drinks, out, profiles, app_drinks, consumed,
          selected_profile, drink_cb, app_out, window, data_file>>

session_vars == <<person, drinks, out>>
app_vars == <<profiles, app_drinks, consumed, selected_profile, drink_cb, app_out,
              window, data_file>>

----------------------------------------------------------------------------
(* Bounds of the model *)

MaxNow == 80        \* the clock stops here under bac_tracker
MaxAppNow == 20     \* the clock stops here under bloodalc
MaxDrinks == 2      \* drinks a session records
MaxConsumed == 2    \* events the consumption log holds
MaxFuture == 20     \* how far ahead of the clock the timestamp of a drink may be
LastCall == 20      \* the last clock value at which a sobering session records a drink
MaxWait == 220      \* the clock stops here in a sobering session

Steps == {20}

----------------------------------------------------------------------------
(* Values and results *)

None == <<>>
Some(v) == <<v>>

\* a returned value, a returned None, or a raised exception
Value(v) == [tag |-> "value", value |-> v]
NoneResult == [tag |-> "None", value |-> 0]
ZeroDivisionError == [tag |-> "ZeroDivisionError", value |-> 0]
Raised(res) == res.tag = "ZeroDivisionError"

Max(a, b) == IF a >= b THEN a ELSE b
Min(a, b) == IF a <= b THEN a ELSE b
Abs(a) == IF a < 0 THEN -a ELSE a

\* the quotient a / b of two fixed-point numbers, truncated towards zero;
\* only called with b # 0
Quot(a, b) ==
    IF (a >= 0) = (b > 0) THEN Abs(a) \div Abs(b) ELSE -(Abs(a) \div Abs(b))

\* Python's float division
FDiv(a, b) == IF b = 0 THEN ZeroDivisionError ELSE Value(Quot(a, b))

----------------------------------------------------------------------------
(* bac_tracker.py: helpers and constants *)

ML_PER_OUNCE == 295735           \* 29.5735, in 1/10000 ml
ALCOHOL_DENSITY_G_PER_ML == 789  \* 0.789, in mg/ml
DEFAULT_BETA == 15000            \* 0.015, in millionths of a percent per hour
FRAC_ONE == 120                  \* the fraction 1.0

\* the r-factors of the simple Widmark variant: 0.73 and 0.66
SEX_R_SimpleWidmark(sex) == IF sex = "female" THEN 66 ELSE 73

SEX_R(sex) == IF sex = "female" THEN 55 ELSE 68

\* grams of alcohol in a drink, in mg
grams_alcohol(ounces, alc_percent) ==
    LET ml100 == Quot(ounces * ML_PER_OUNCE, 100)       \* 1/100 ml
        alc_ml100 == Quot(ml100 * alc_percent, 100)     \* 1/100 ml
    IN  Quot(alc_ml100 * ALCOHOL_DENSITY_G_PER_ML, 100)

Drink(ounces, alc_percent, time, absorption_time_min) ==
    [ounces |-> ounces, alc_percent |-> alc_percent, time |-> time,
     absorption_time_min |-> absorption_time_min]

Person(weight_kg, sex, age, eaten, custom_r, custom_beta) ==
    [weight_kg |-> weight_kg, sex |-> sex, age |-> age, eaten |-> eaten,
     custom_r |-> custom_r, custom_beta |-> custom_beta]

PersonR(p) == IF p.custom_r # None THEN p.custom_r[1] ELSE SEX_R(p.sex)

\* the age adjustment without its cap of 25 %
PersonBeta_Uncapped(p) ==
    LET base == IF p.custom_beta # None THEN p.custom_beta[1] ELSE DEFAULT_BETA
    IN  IF p.age <= 30 THEN base
        ELSE Quot(base * (1000 - 2 * (p.age - 30)), 1000)

PersonBeta(p) ==
    LET base == IF p.custom_beta # None THEN p.custom_beta[1] ELSE DEFAULT_BETA
    IN  IF p.age <= 30 THEN base
        ELSE Quot(base * (1000 - Min(250, 2 * (p.age - 30))), 1000)

----------------------------------------------------------------------------
(* bac_tracker.py: BACSession *)

\* the linear fraction without its upper bound
frac_absorbed_Unbounded(drink, t) ==
    LET minutes_since == t - drink.time
    IN  IF minutes_since <= 0 THEN 0
        ELSE Quot(minutes_since * FRAC_ONE, drink.absorption_time_min)

\* fraction of the drink absorbed so far (linear model), in FRAC_ONE-ths
frac_absorbed(drink, t) ==
    LET minutes_since == t - drink.time
    IN  IF minutes_since <= 0 THEN 0
        ELSE Min(FRAC_ONE, Quot(minutes_since * FRAC_ONE, drink.absorption_time_min))

\* elimination that stops when the absorption window ends
hours_since_midpoint_UntilAbsorbed(drink, t) ==
    LET midpoint_offset == frac_absorbed(drink, t) * drink.absorption_time_min
    IN  Max(0, 2 * FRAC_ONE * Min(t - drink.time, drink.absorption_time_min)
                 - midpoint_offset)

\* hours since the midpoint of the absorbed part, in 1/(2*FRAC_ONE) minutes
hours_since_midpoint(drink, t) ==
    LET midpoint_offset == frac_absorbed(drink, t) * drink.absorption_time_min
    IN  Max(0, 2 * FRAC_ONE * (t - drink.time) - midpoint_offset)

\* a contribution returned without its clamp
ClampContribution_Unclamped(contrib) == contrib

\* the clamp on a drink's contribution
ClampContribution(contrib) == Max(0, contrib)

contribution_from_drink(p, drink, t) ==
    LET weight_kg == p.weight_kg
        r == PersonR(p)
        beta == PersonBeta(p)
        absorbed_grams == Quot(grams_alcohol(drink.ounces, drink.alc_percent)
                                 * frac_absorbed(drink, t), FRAC_ONE)
        raw_bac == FDiv(absorbed_grams * 10000, weight_kg * r)
        elim == Quot(beta * hours_since_midpoint(drink, t), 2 * FRAC_ONE * 60)
    IN  IF Raised(raw_bac) THEN ZeroDivisionError
        ELSE Value(ClampContribution(raw_bac.value - elim))

RECURSIVE SumContributions(_, _, _)
SumContributions(p, ds, t) ==
    IF ds = <<>> THEN Value(0)
    ELSE LET c == contribution_from_drink(p, Head(ds), t)
             rest == SumContributions(p, Tail(ds), t)
         IN  IF Raised(c) \/ Raised(rest) THEN ZeroDivisionError
             ELSE Value(c.value + rest.value)

current_bac(p, ds, t) ==
    LET total == SumContributions(p, ds, t)
    IN  IF Raised(total) THEN ZeroDivisionError ELSE Value(Max(0, total.value))

\* time_to_sober dividing by beta before it looks at the BAC
time_to_sober_DivideFirst(p, ds, t) ==
    LET bac == current_bac(p, ds, t)
        hours_needed == IF Raised(bac) THEN ZeroDivisionError
                        ELSE FDiv(bac.value * 60, PersonBeta(p))
    IN  IF Raised(hours_needed) THEN ZeroDivisionError
        ELSE IF bac.value <= 0 THEN NoneResult
        ELSE hours_needed

\* the timedelta, in minutes
time_to_sober(p, ds, t) ==
    LET bac == current_bac(p, ds, t)
    IN  IF Raised(bac) THEN ZeroDivisionError
        ELSE IF bac.value <= 0 THEN NoneResult
        ELSE FDiv(bac.value * 60, PersonBeta(p))

summary(p, ds, t) ==
    [op |-> "summary", bac |-> current_bac(p, ds, t), tts |-> time_to_sober(p, ds, t)]

NoOutput == [op |-> "none", bac |-> NoneResult, tts |-> NoneResult]

----------------------------------------------------------------------------
(* bloodalc.py: data models and alcohol math *)

Profile(name, age, height_cm, sex, weight_kg, eaten_recently) ==
    [name |-> name, age |-> age, height_cm |-> height_cm, sex |-> sex,
     weight_kg |-> weight_kg, eaten_recently |-> eaten_recently]

CatalogDrink(name, volume_ml, percent_abv) ==
    [name |-> name, volume_ml |-> volume_ml, percent_abv |-> percent_abv]

Consumed(drink_name, quantity, timestamp_iso) ==
    [drink_name |-> drink_name, quantity |-> quantity, timestamp_iso |-> timestamp_iso]

OZ_TO_ML == 295735            \* 29.5735295625, in 1/10000 ml
POUNDS_TO_KG == 45359         \* 0.45359237, in 1/100000 kg
INCH_TO_CM == 254             \* 2.54, in 1/100 cm
STANDARD_DRINK_GRAMS == 14    \* 14.0 g
ALCOHOL_DENSITY == 79         \* 0.79 g/ml, in 1/100 g/ml

ml_from_volume(value, unit) ==
    IF unit = "oz" THEN Quot(value * OZ_TO_ML, 10000) ELSE value

cm_from_height(value, unit) ==
    IF unit = "in" THEN Quot(value * INCH_TO_CM, 100) ELSE value

kg_from_weight(value, unit) ==
    IF unit = "lb" THEN Quot(value * POUNDS_TO_KG, 100000) ELSE value

\* {d.name: d for d in drinks}.get(name): the last entry of that name, or None
drink_lookup(ds, name) ==
    LET at == { i \in 1..Len(ds) : ds[i].name = name }
    IN  IF at = {} THEN None
        ELSE Some(ds[CHOOSE i \in at : \A j \in at : j <= i])

\* a resolved event counted once, whatever its quantity
grams_of_event_IgnoringQuantity(c, d) ==
    Quot(d.volume_ml * d.percent_abv * ALCOHOL_DENSITY, 10)

\* what one resolved event adds, in mg
grams_of_event(c, d) ==
    LET ethanol_ml100 == d.volume_ml * d.percent_abv           \* 1/100 ml
        grams_per_unit == Quot(ethanol_ml100 * ALCOHOL_DENSITY, 10)
    IN  grams_per_unit * c.quantity

RECURSIVE total_alcohol_grams(_, _)
total_alcohol_grams(cs, ds) ==
    IF cs = <<>> THEN 0
    ELSE LET c == Head(cs)
             d == drink_lookup(ds, c.drink_name)
         IN  (IF d = None THEN 0 ELSE grams_of_event(c, d[1]))
               + total_alcohol_grams(Tail(cs), ds)

\* standard drinks, in thousandths
standard_drinks_from_grams(grams) ==
    IF STANDARD_DRINK_GRAMS # 0 THEN Quot(grams, STANDARD_DRINK_GRAMS) ELSE 0

\* the first sip taken to be the first event logged
first_sip_InsertionOrder(cs) == cs[1].timestamp_iso

\* the earliest timestamp of a non-empty log
first_sip(cs) ==
    LET times == { cs[i].timestamp_iso : i \in 1..Len(cs) }
    IN  CHOOSE t \in times : \A u \in times : t <= u

\* elapsed time since the first sip, without its clamp
hours_since_first_sip_Unclamped(cs, t) ==
    IF cs = <<>> THEN 0 ELSE t - first_sip(cs)

\* elapsed time since the first sip, in minutes
hours_since_first_sip(cs, t) ==
    IF cs = <<>> THEN 0 ELSE Max(0, t - first_sip(cs))

ethanol_grams(cs, ds) == total_alcohol_grams(cs, ds)

\* beta60 * t_hours, t_hours in minutes
elimination(b60, t_hours) == Quot(b60 * t_hours, 60)

IsFemale(profile) == profile.sex = "female"

widmark_bac_from_grams(grams, W_kg, r, b60, t_hours) ==
    IF W_kg <= 0 \/ r <= 0 THEN Value(0)
    ELSE LET bac == Quot(grams * 10000, W_kg * r) - elimination(b60, t_hours)
         IN  Value(Max(0, bac))

matthews_miller(cs, ds, profile, b60, t_hours) ==
    LET grams == ethanol_grams(cs, ds)
        c_std == standard_drinks_from_grams(grams)
        GC == IF IsFemale(profile) THEN 90 ELSE 75                \* tenths
        w_lb == Quot(profile.weight_kg * 1000000, POUNDS_TO_KG)   \* tenths of a lb
        core == FDiv(c_std * GC * 500, w_lb)
    IN  IF Raised(core) THEN ZeroDivisionError
        ELSE Value(Max(0, core.value - elimination(b60, t_hours)))

forrest(cs, ds, profile, b60, t_hours) ==
    LET grams == ethanol_grams(cs, ds)
        W == profile.weight_kg
        H == profile.height_cm
        BMI == IF H > 0 THEN Quot(W * 1000000, H * H) ELSE 0      \* hundredths
        rf_raw == IF IsFemale(profile) THEN Quot(1371 * BMI, 100) - 3467
                  ELSE Quot(1340 * BMI, 100) - 12469              \* 1/1000 percent
        rf_pct == Max(0, Min(60000, rf_raw))
        lean_mass == Quot(W * (100000 - rf_pct), 100)             \* grams
        tbw == Quot(73 * Max(0, lean_mass), 100)                  \* ml
        \* (grams / 10) / litres; tbw > 0 here, so the division cannot raise
        core == Quot(grams * 10000, Max(1, Quot(tbw, 10)))
    IN  IF tbw <= 0 THEN Value(0)
        ELSE Value(Max(0, core - elimination(b60, t_hours)))

lewis(cs, ds, profile, b60, t_hours) ==
    LET r == IF IsFemale(profile) THEN 68 ELSE 76
    IN  widmark_bac_from_grams(ethanol_grams(cs, ds), profile.weight_kg, r, b60, t_hours)

nhtsa(cs, ds, profile, b60, t_hours) ==
    LET r == IF IsFemale(profile) THEN 49 ELSE 58
    IN  widmark_bac_from_grams(ethanol_grams(cs, ds), profile.weight_kg, r, b60, t_hours)

\* the datetime at which BAC is zero, in minutes, or None
estimate_sober_time(bac, b60, t) ==
    IF bac <= 0 \/ b60 <= 0 THEN NoneResult
    ELSE Value(t + Quot(bac * 60, b60))

----------------------------------------------------------------------------
(* bloodalc.py: persistence helpers *)

\* json.dump of a bool writes the literal true or false; json.load reads it back
json_dump_bool(b) == IF b THEN "true" ELSE "false"

\* reading the literal by the truth value of its text
json_load_bool_Truthy(text) == text # ""

json_load_bool(text) == text = "true"

\* asdict(p) as json.dump writes it: numbers and strings as they are
profile_to_json(p) ==
    [name |-> p.name, age |-> p.age, height_cm |-> p.height_cm, sex |-> p.sex,
     weight_kg |-> p.weight_kg, eaten_recently |-> json_dump_bool(p.eaten_recently)]

drink_to_json(d) ==
    [name |-> d.name, volume_ml |-> d.volume_ml, percent_abv |-> d.percent_abv]

consumed_to_json(c) ==
    [drink_name |-> c.drink_name, quantity |-> c.quantity,
     timestamp_iso |-> c.timestamp_iso]

\* the JSON object of three lists
JsonData(ps, ds, cs) == [top |-> "object", profiles |-> ps, drinks |-> ds, consumed |-> cs]

\* a JSON document that is an array, not an object
JsonArray == [top |-> "array", profiles |-> <<>>, drinks |-> <<>>, consumed |-> <<>>]

EmptyData == JsonData(<<>>, <<>>, <<>>)

\* the content of DATA_FILE: no file, text that is not JSON, or a JSON document
MissingFile == [kind |-> "missing", doc |-> EmptyData]
UnparsableFile == [kind |-> "unparsable", doc |-> EmptyData]
JsonFile(doc) == [kind |-> "json", doc |-> doc]

\* load_data: the parsed document, or the defaults when the file is missing or
\* json.load raises
load_data(file) == IF file.kind = "json" THEN file.doc ELSE EmptyData

\* save_data: the whole file is overwritten
save_data(data) == JsonFile(data)

\* Profile(**p): every field but eaten_recently is required, no other is accepted
ProfileFields == {"name", "age", "height_cm", "sex", "weight_kg", "eaten_recently"}
profile_from_json(p) ==
    IF ~(ProfileFields \ {"eaten_recently"} \subseteq DOMAIN p /\ DOMAIN p \subseteq ProfileFields)
    THEN [error |-> "TypeError", record |-> Profile("", 0, 0, "", 0, FALSE)]
    ELSE [error |-> "none",
          record |-> Profile(p.name, p.age, p.height_cm, p.sex, p.weight_kg,
                             IF "eaten_recently" \in DOMAIN p
                             THEN json_load_bool(p.eaten_recently) ELSE FALSE)]

\* Drink(**d)
drink_from_json(d) ==
    IF DOMAIN d # {"name", "volume_ml", "percent_abv"}
    THEN [error |-> "TypeError", record |-> CatalogDrink("", 0, 0)]
    ELSE [error |-> "none", record |-> CatalogDrink(d.name, d.volume_ml, d.percent_abv)]

\* Consumed(**c)
consumed_from_json(c) ==
    IF DOMAIN c # {"drink_name", "quantity", "timestamp_iso"}
    THEN [error |-> "TypeError", record |-> Consumed("", 0, 0)]
    ELSE [error |-> "none", record |-> Consumed(c.drink_name, c.quantity, c.timestamp_iso)]

\* the State part of BloodAlcCalcApp.__init__: the three lists, or the
\* exception that leaves the constructor
load_state(file) ==
    LET data == load_data(file)
        ps == [i \in 1..Len(data.profiles) |-> profile_from_json(data.profiles[i])]
        ds == [i \in 1..Len(data.drinks) |-> drink_from_json(data.drinks[i])]
        cs == [i \in 1..Len(data.consumed) |-> consumed_from_json(data.consumed[i])]
    IN  IF data.top # "object"
        THEN [error |-> "AttributeError", profiles |-> <<>>, drinks |-> <<>>, consumed |-> <<>>]
        ELSE IF \/ \E i \in 1..Len(ps) : ps[i].error # "none"
                \/ \E i \in 1..Len(ds) : ds[i].error # "none"
                \/ \E i \in 1..Len(cs) : cs[i].error # "none"
        THEN [error |-> "TypeError", profiles |-> <<>>, drinks |-> <<>>, consumed |-> <<>>]
        ELSE [error |-> "none",
              profiles |-> [i \in 1..Len(ps) |-> ps[i].record],
              drinks |-> [i \in 1..Len(ds) |-> ds[i].record],
              consumed |-> [i \in 1..Len(cs) |-> cs[i].record]]

\* the dict on_close builds from the three lists
data_to_save(ps, ds, cs) ==
    JsonData([i \in 1..Len(ps) |-> profile_to_json(ps[i])],
             [i \in 1..Len(ds) |-> drink_to_json(ds[i])],
             [i \in 1..Len(cs) |-> consumed_to_json(cs[i])])

----------------------------------------------------------------------------
(* bloodalc.py: CalculateFrame.calculate *)

NoAppOutput ==
    [op |-> "none", msg |-> "", raised |-> FALSE, beta |-> 0, t_hours |-> 0,
     grams |-> 0, mm |-> 0, fr |-> 0, lw |-> 0, nh |-> 0, current_bac |-> 0,
     sober_time |-> NoneResult]

\* a handler that showed a message box and returned
Rejected(op, msg) == [NoAppOutput EXCEPT !.op = "rejected", !.msg = msg]

\* a handler that ran to its end without output
Done(op) == NoAppOutput

\* the mean of the four models, clamped
mean_bac(mm, fr, lw, nh) == Max(0, Quot(mm + fr + lw + nh, 4))

\* what calculate writes to the output box for profile p, or the exception
\* that leaves the handler
calculate_output(p, cs, ds, b60, t) ==
    LET t_hours == hours_since_first_sip(cs, t)
        mm == matthews_miller(cs, ds, p, b60, t_hours)
        fr == forrest(cs, ds, p, b60, t_hours)
        lw == lewis(cs, ds, p, b60, t_hours)
        nh == nhtsa(cs, ds, p, b60, t_hours)
    IN  IF Raised(mm) \/ Raised(fr) \/ Raised(lw) \/ Raised(nh)
        THEN [NoAppOutput EXCEPT !.op = "calculate", !.raised = TRUE, !.beta = b60,
                                 !.t_hours = t_hours]
        ELSE LET bac == mean_bac(mm.value, fr.value, lw.value, nh.value)
             IN  [op |-> "calculate", msg |-> "", raised |-> FALSE, beta |-> b60,
                  t_hours |-> t_hours, grams |-> total_alcohol_grams(cs, ds),
                  mm |-> mm.value, fr |-> fr.value, lw |-> lw.value, nh |-> nh.value,
                  current_bac |-> bac,
                  sober_time |-> estimate_sober_time(bac, b60, t)]

----------------------------------------------------------------------------
(* Inputs *)

\* what the user types into the form of bac_ui.py: weight, sex, age, eaten
SessionForms ==
    { <<0, "male", 25, FALSE>>,
      <<80, "female", 25, TRUE>> }

\* persons built through the API: custom_r and custom_beta may be given
Persons ==
    { Person(80, "male", 25, FALSE, None, None),
      Person(80, "female", 50, TRUE, None, None),
      Person(0, "male", 25, FALSE, None, None),
      Person(-80, "male", 25, FALSE, None, None),
      Person(80, "male", 25, FALSE, Some(0), None),
      Person(80, "male", 50, FALSE, None, Some(0)),
      Person(80, "male", 25, TRUE, None, Some(-15000)) }

\* (ounces, percent) typed by the user
DrinkInputs == { <<12, 5>>, <<-12, 5>> }

\* the profile form: name, age, height, unit, sex, weight, unit, eaten
ProfileForms ==
    { <<"ann", 25, 70, "in", "male", 176, "lb", FALSE>>,
      <<"ann", 50, 0, "cm", "female", 0, "kg", TRUE>>,
      <<"", 25, 180, "cm", "male", 80, "kg", FALSE>> }

\* the drink form: name, volume, unit, percent ABV
DrinkForms ==
    { <<"beer", 12, "oz", 5>>,
      <<"shot", -44, "ml", 40>>,
      <<"", 12, "oz", 5>> }

\* a file an earlier run of the application wrote on closing
SavedFile ==
    JsonFile(JsonData(
        <<[name |-> "ann", age |-> 25, height_cm |-> 177, sex |-> "male",
           weight_kg |-> 79, eaten_recently |-> "false"]>>,
        <<[name |-> "beer", volume_ml |-> 354, percent_abv |-> 5]>>,
        <<[drink_name |-> "beer", quantity |-> 2, timestamp_iso |-> -20]>>))

\* a file holding a profile without its required fields
IncompleteFile == JsonFile(JsonData(<<[name |-> "ann"]>>, <<>>, <<>>))

\* what DATA_FILE holds when the application starts; a missing and an
\* unparsable file start the application like SavedFile with nothing in it
DataFiles == {SavedFile, JsonFile(JsonArray), IncompleteFile}

\* the quantity spinbox, whose entry accepts any typed integer
Quantities == {2, 0}

\* an entry at a custom time: the quantity and the time typed, which is
\* ahead of the clock until the clock reaches it
CustomEntries == { <<2, 20>> }

\* the beta60 entry when Calculate is pressed
Beta60Inputs == {17000, 0, -17000}

----------------------------------------------------------------------------
(* bac_tracker.py, bac_ui.py: the operations on a session *)

\* BACSession.add_drink(ounces, alc_percent, time)
add_drink(ounces, alc_percent, time) ==
    /\ program = "bac_tracker"
    /\ Len(drinks) < MaxDrinks
    /\ LET absorption == IF person.eaten THEN 60 ELSE 40
       IN  drinks' = Append(drinks, Drink(ounces, alc_percent, time, absorption))
    /\ out' = NoOutput
    /\ UNCHANGED <<program, now, person>>
    /\ UNCHANGED app_vars

\* the CLI's "reset"
reset ==
    /\ program = "bac_tracker"
    /\ drinks' = <<>>
    /\ out' = NoOutput
    /\ UNCHANGED <<program, now, person>>
    /\ UNCHANGED app_vars

\* BACApp.start_session
start_session(weight, sex, age, eaten) ==
    /\ program = "bac_tracker"
    /\ person' = Person(weight, sex, age, eaten, None, None)
    /\ drinks' = <<>>
    /\ out' = NoOutput
    /\ UNCHANGED <<program, now>>
    /\ UNCHANGED app_vars

\* BACSession.summary(now): the CLI's "now", BACApp.show_bac
show_bac ==
    /\ program = "bac_tracker"
    /\ out' = summary(person, drinks, now)
    /\ UNCHANGED <<program, now, person, drinks>>
    /\ UNCHANGED app_vars

\* the wall clock advances
Tick ==
    /\ window = "open"
    /\ \E dt \in Steps :
          /\ now + dt <= (IF program = "bac_tracker" THEN MaxNow ELSE MaxAppNow)
          /\ now' = now + dt
    /\ out' = NoOutput
    /\ app_out' = NoAppOutput
    /\ UNCHANGED <<program, person, drinks, profiles, app_drinks, consumed,
                   selected_profile, drink_cb, window, data_file>>

----------------------------------------------------------------------------
(* bloodalc.py: the handlers of the application *)

names_of(list) == { list[i].name : i \in 1..Len(list) }

\* next((x for x in list if x.name == name), None)
first_named(list, name) ==
    LET at == { i \in 1..Len(list) : list[i].name = name }
    IN  IF at = {} THEN None
        ELSE Some(list[CHOOSE i \in at : \A j \in at : i <= j])

\* list.index(x): the first position holding a record equal to x
index_of(list, x) ==
    CHOOSE i \in 1..Len(list) : list[i] = x /\ \A j \in 1..(i - 1) : list[j] # x

\* adding without looking for the name
replace_or_add_AlwaysAppend(list, new) == Append(list, new)

\* the list after "replace or add" of the record new
replace_or_add(list, new) ==
    LET existing == first_named(list, new.name)
    IN  IF existing # None
        THEN [list EXCEPT ![index_of(list, existing[1])] = new]
        ELSE Append(list, new)

\* [x for x in list if x.name != name]
without_name(list, name) == SelectSeq(list, LAMBDA x : x.name # name)

\* ProfileFrame.add_profile
add_profile(form) ==
    /\ program = "bloodalc"
    /\ window = "open"
    /\ IF form[1] = ""
       THEN /\ app_out' = Rejected("add_profile", "Invalid input")
            /\ UNCHANGED profiles
       ELSE LET height_cm == cm_from_height(form[3], form[4])
                weight_kg == kg_from_weight(form[6], form[7])
                new_p == Profile(form[1], form[2], height_cm, form[5], weight_kg, form[8])
            IN  /\ profiles' = replace_or_add(profiles, new_p)
                /\ app_out' = Done("add_profile")
    /\ UNCHANGED <<program, window, data_file, now, app_drinks, consumed, selected_profile, drink_cb>>
    /\ UNCHANGED session_vars

\* ProfileFrame.delete_profile, name the selected row of the tree
delete_profile(name) ==
    /\ program = "bloodalc"
    /\ window = "open"
    /\ name \in names_of(profiles)
    /\ profiles' = without_name(profiles, name)
    /\ selected_profile' =
          IF selected_profile # None /\ selected_profile[1].name = name
          THEN None ELSE selected_profile
    /\ app_out' = Done("delete_profile")
    /\ UNCHANGED <<program, window, data_file, now, app_drinks, consumed, drink_cb>>
    /\ UNCHANGED session_vars

\* ProfileFrame.on_select, name the selected row of the tree
on_select(name) ==
    /\ program = "bloodalc"
    /\ window = "open"
    /\ name \in names_of(profiles)
    /\ selected_profile' = first_named(profiles, name)
    /\ app_out' = Done("on_select")
    /\ UNCHANGED <<program, window, data_file, now, profiles, app_drinks, consumed, drink_cb>>
    /\ UNCHANGED session_vars

\* CalculateFrame.on_profile_change, name the entry picked in profile_cb
on_profile_change(name) ==
    /\ program = "bloodalc"
    /\ window = "open"
    /\ name \in names_of(profiles)
    /\ selected_profile' = first_named(profiles, name)
    /\ app_out' = Done("on_profile_change")
    /\ UNCHANGED <<program, window, data_file, now, profiles, app_drinks, consumed, drink_cb>>
    /\ UNCHANGED session_vars

\* DrinksFrame.add_drink
catalog_add_drink(form) ==
    /\ program = "bloodalc"
    /\ window = "open"
    /\ IF form[1] = ""
       THEN /\ app_out' = Rejected("add_drink", "Invalid input")
            /\ UNCHANGED app_drinks
       ELSE LET volume_ml == ml_from_volume(form[2], form[3])
                nd == CatalogDrink(form[1], volume_ml, form[4])
            IN  /\ app_drinks' = replace_or_add(app_drinks, nd)
                /\ app_out' = Done("add_drink")
    /\ UNCHANGED <<program, window, data_file, now, profiles, consumed, selected_profile, drink_cb>>
    /\ UNCHANGED session_vars

\* DrinksFrame.delete_drink, name the selected row of the tree
delete_drink(name) ==
    /\ program = "bloodalc"
    /\ window = "open"
    /\ name \in names_of(app_drinks)
    /\ app_drinks' = without_name(app_drinks, name)
    /\ app_out' = Done("delete_drink")
    /\ UNCHANGED <<program, window, data_file, now, profiles, consumed, selected_profile, drink_cb>>
    /\ UNCHANGED session_vars

\* the user picks a drink in drink_cb, whose values are the catalog's names
select_drink(name) ==
    /\ program = "bloodalc"
    /\ window = "open"
    /\ name \in names_of(app_drinks)
    /\ drink_cb' = name
    /\ app_out' = Done("select_drink")
    /\ UNCHANGED <<program, window, data_file, now, profiles, app_drinks, consumed, selected_profile>>
    /\ UNCHANGED session_vars

\* timestamp.isoformat(timespec='minutes'): the clock of the model is in minutes
isoformat(timestamp) == timestamp

\* CalculateFrame._add_consumed
add_consumed(qty, timestamp, op) ==
    /\ program = "bloodalc"
    /\ window = "open"
    /\ Len(consumed) < MaxConsumed
    /\ IF drink_cb = ""
       THEN /\ app_out' = Rejected(op, "Missing")
            /\ UNCHANGED consumed
       ELSE /\ consumed' = Append(consumed, Consumed(drink_cb, qty, isoformat(timestamp)))
            /\ app_out' = Done(op)
    /\ UNCHANGED <<program, window, data_file, now, profiles, app_drinks, selected_profile, drink_cb>>
    /\ UNCHANGED session_vars

\* CalculateFrame.add_consumed_now
add_consumed_now(qty) == add_consumed(qty, now, "add_consumed_now")

\* CalculateFrame.add_consumed_custom, ts the time parsed from the entry
add_consumed_custom(qty, ts) == add_consumed(qty, ts, "add_consumed_custom")

\* a removal that drops the last row, whichever row is selected
remove_selected_LastRow(idx) ==
    /\ program = "bloodalc"
    /\ window = "open"
    /\ idx \in 0..(Len(consumed) - 1)
    /\ consumed' = SubSeq(consumed, 1, Len(consumed) - 1)
    /\ app_out' = Done("remove_selected")
    /\ UNCHANGED <<program, window, data_file, now, profiles, app_drinks, selected_profile, drink_cb>>
    /\ UNCHANGED session_vars

\* CalculateFrame.remove_selected, idx the selected row (0-based)
remove_selected(idx) ==
    /\ program = "bloodalc"
    /\ window = "open"
    /\ idx \in 0..(Len(consumed) - 1)
    /\ consumed' = [i \in 1..(Len(consumed) - 1) |->
                        IF i <= idx THEN consumed[i] ELSE consumed[i + 1]]
    /\ app_out' = Done("remove_selected")
    /\ UNCHANGED <<program, window, data_file, now, profiles, app_drinks, selected_profile, drink_cb>>
    /\ UNCHANGED session_vars

\* CalculateFrame.clear_consumed, confirmed
clear_consumed ==
    /\ program = "bloodalc"
    /\ window = "open"
    /\ consumed' = <<>>
    /\ app_out' = Done("clear_consumed")
    /\ UNCHANGED <<program, window, data_file, now, profiles, app_drinks, selected_profile, drink_cb>>
    /\ UNCHANGED session_vars

\* BloodAlcCalcApp.on_close: the state is written and the window destroyed,
\* its widgets with it
on_close ==
    /\ program = "bloodalc"
    /\ window = "open"
    /\ data_file' = save_data(data_to_save(profiles, app_drinks, consumed))
    /\ window' = "destroyed"
    /\ drink_cb' = ""
    /\ app_out' = NoAppOutput
    /\ UNCHANGED <<program, now, profiles, app_drinks, consumed, selected_profile>>
    /\ UNCHANGED session_vars

\* CalculateFrame.calculate, b60 the content of the beta60 entry
calculate(b60) ==
    /\ program = "bloodalc"
    /\ window = "open"
    /\ app_out' =
          IF selected_profile = None THEN Rejected("calculate", "Profile")
          ELSE IF consumed = <<>> THEN Rejected("calculate", "Consumed")
          ELSE calculate_output(selected_profile[1], consumed, app_drinks, b60, now)
    /\ UNCHANGED <<program, window, data_file, now, profiles, app_drinks, consumed, selected_profile, drink_cb>>
    /\ UNCHANGED session_vars

----------------------------------------------------------------------------
(* The specification *)

Init ==
    /\ program \in {"bac_tracker", "bloodalc"}
    /\ now = 0
    /\ person \in (IF program = "bac_tracker" THEN Persons
                   ELSE {Person(80, "male", 25, FALSE, None, None)})
    /\ drinks = <<>>
    /\ out = NoOutput
    /\ data_file \in (IF program = "bloodalc" THEN DataFiles ELSE {MissingFile})
    /\ LET state == load_state(data_file)
       IN  /\ window = (IF state.error = "none" THEN "open" ELSE "failed")
           /\ profiles = state.profiles
           /\ app_drinks = state.drinks
           /\ consumed = state.consumed
    /\ selected_profile = None
    /\ drink_cb = ""
    /\ app_out = NoAppOutput

Next ==
    \/ \E d \in DrinkInputs, ahead \in {0, MaxFuture} : add_drink(d[1], d[2], now + ahead)
    \/ reset
    \/ \E form \in SessionForms : start_session(form[1], form[2], form[3], form[4])
    \/ show_bac
    \/ Tick
    \/ \E form \in ProfileForms : add_profile(form)
    \/ \E name \in names_of(profiles) : delete_profile(name)
    \/ \E name \in names_of(profiles) : on_select(name)
    \/ \E name \in names_of(profiles) : on_profile_change(name)
    \/ \E form \in DrinkForms : catalog_add_drink(form)
    \/ \E name \in names_of(app_drinks) : delete_drink(name)
    \/ \E name \in names_of(app_drinks) : select_drink(name)
    \/ \E qty \in Quantities : add_consumed_now(qty)
    \/ \E entry \in CustomEntries : add_consumed_custom(entry[1], entry[2])
    \/ \E idx \in 0..(MaxConsumed - 1) : remove_selected(idx)
    \/ clear_consumed
    \/ on_close
    \/ \E b60 \in Beta60Inputs : calculate(b60)

Spec == Init /\ [][Next]_vars

----------------------------------------------------------------------------
(* A sobering session: bac_tracker.py with the clock running on.  Drinks are *)
(* recorded up to LastCall and the wall clock advances up to MaxWait; time   *)
(* passes whatever the user does, hence the weak fairness of Wait.           *)

\* the wall clock advances during a session of bac_tracker.py
Wait ==
    /\ program = "bac_tracker"
    /\ \E dt \in Steps :
          /\ now + dt <= MaxWait
          /\ now' = now + dt
    /\ out' = NoOutput
    /\ UNCHANGED <<program, person, drinks>>
    /\ UNCHANGED app_vars

SoberingInit == Init /\ program = "bac_tracker"

SoberingNext ==
    \/ \E d \in DrinkInputs, ahead \in {0, MaxFuture} :
          now <= LastCall /\ add_drink(d[1], d[2], now + ahead)
    \/ reset
    \/ \E form \in SessionForms : start_session(form[1], form[2], form[3], form[4])
    \/ show_bac
    \/ Wait

SoberingSpec == SoberingInit /\ [][SoberingNext]_vars /\ WF_vars(Wait)

----------------------------------------------------------------------------
(* Probes: the instants and inputs at which the pure functions are examined *)

\* now and later instants: during absorption, at its end, long after it
ProbeOffsets == {0, 7, 45, 240}
ProbeTimes == { now + d : d \in ProbeOffsets }

\* the profiles the application holds or has selected
KnownProfiles ==
    { profiles[i] : i \in 1..Len(profiles) }
      \cup (IF selected_profile = None THEN {} ELSE {selected_profile[1]})

DrinkIndexes == 1..Len(drinks)

----------------------------------------------------------------------------
(* C1 *)

WidmarkWeights == {-80, 0, 80}
WidmarkRs == {-68, 0, 68}
WidmarkHours == {-60, 0, 60}

NonNegative(res) == Raised(res) \/ res.value >= 0

\* whenever a BAC model returns a value, the value is >= 0: each drink's
\* contribution and the session's current BAC at every instant, what summary
\* reported, the four models of the suite for every known profile and every
\* beta60, what calculate reported, and the metric Widmark form on negative,
\* zero and positive arguments.
OutputsNonNegative ==
    /\ program = "bac_tracker" =>
          /\ \A t \in ProbeTimes :
                /\ \A i \in DrinkIndexes :
                      NonNegative(contribution_from_drink(person, drinks[i], t))
                /\ NonNegative(current_bac(person, drinks, t))
          /\ NonNegative(out.bac)
    /\ program = "bloodalc" =>
          /\ \A p \in KnownProfiles, b \in Beta60Inputs :
                LET t_hours == hours_since_first_sip(consumed, now)
                IN  /\ NonNegative(matthews_miller(consumed, app_drinks, p, b, t_hours))
                    /\ NonNegative(forrest(consumed, app_drinks, p, b, t_hours))
                    /\ NonNegative(lewis(consumed, app_drinks, p, b, t_hours))
                    /\ NonNegative(nhtsa(consumed, app_drinks, p, b, t_hours))
          /\ app_out.mm >= 0 /\ app_out.fr >= 0 /\ app_out.lw >= 0 /\ app_out.nh >= 0
          /\ app_out.current_bac >= 0
          /\ app_out.op = "calculate" =>
                \A w \in WidmarkWeights, r \in WidmarkRs, h \in WidmarkHours :
                   LET g == total_alcohol_grams(consumed, app_drinks)
                   IN  /\ NonNegative(widmark_bac_from_grams(g, w, r, app_out.beta, h))
                       /\ NonNegative(widmark_bac_from_grams(-g, w, r, app_out.beta, h))

\* C1: in every reachable state, whenever a BAC model returns a value, the
\* value is >= 0, for each of the values named above.
C1_OutputsNonNegative == []OutputsNonNegative

\* a summary was reported for a session holding a drink of negative volume
\* that is under absorption: its raw contribution is negative
C1_Witness ==
    /\ out.op = "summary"
    /\ ~Raised(out.bac)
    /\ \E i \in DrinkIndexes : drinks[i].ounces < 0 /\ drinks[i].time < now

----------------------------------------------------------------------------
(* C2 *)

\* C2: a formula that divides by a zero or negative weight, r-factor or
\* elimination rate returns 0 (time_to_sober: None) instead of raising.
C2_DegenerateParametersReturnZero ==
    /\ (person.weight_kg <= 0 \/ PersonR(person) <= 0) =>
          \A i \in DrinkIndexes :
              contribution_from_drink(person, drinks[i], now) = Value(0)
    /\ PersonBeta(person) <= 0 => time_to_sober(person, drinks, now) = NoneResult
    /\ \A p \in KnownProfiles, b \in Beta60Inputs :
          p.weight_kg <= 0 =>
             LET t_hours == hours_since_first_sip(consumed, now)
             IN  /\ matthews_miller(consumed, app_drinks, p, b, t_hours) = Value(0)
                 /\ forrest(consumed, app_drinks, p, b, t_hours) = Value(0)
                 /\ lewis(consumed, app_drinks, p, b, t_hours) = Value(0)
                 /\ nhtsa(consumed, app_drinks, p, b, t_hours) = Value(0)

----------------------------------------------------------------------------
(* C3 *)

\* C3: whenever the current BAC is computed, time_to_sober is None for a BAC
\* <= 0, None for beta <= 0, and otherwise BAC / beta hours; estimate_sober_time
\* likewise, counted from now.
C3_TimeToSoberContract ==
    /\ LET bac == current_bac(person, drinks, now)
           beta == PersonBeta(person)
           tts == time_to_sober(person, drinks, now)
       IN  ~Raised(bac) =>
              IF bac.value <= 0 \/ beta <= 0 THEN tts = NoneResult
              ELSE tts = Value(Quot(bac.value * 60, beta))
    /\ (app_out.op = "calculate" /\ ~app_out.raised) =>
          IF app_out.current_bac <= 0 \/ app_out.beta <= 0
          THEN app_out.sober_time = NoneResult
          ELSE app_out.sober_time
                 = Value(now + Quot(app_out.current_bac * 60, app_out.beta))

----------------------------------------------------------------------------
(* C4 *)

\* C4: with an empty drink log, for every profile and every instant,
\* current_bac is 0 and time_to_sober is None, and summary reports so.
C4_EmptyLogIsSober ==
    drinks = <<>> =>
       /\ \A t \in ProbeTimes :
             /\ current_bac(person, drinks, t) = Value(0)
             /\ time_to_sober(person, drinks, t) = NoneResult
       /\ out.op = "summary" => out.bac = Value(0) /\ out.tts = NoneResult

\* a summary of an empty log, for a person whose elimination rate is zero
C4_Witness ==
    /\ out.op = "summary"
    /\ drinks = <<>>
    /\ PersonBeta(person) = 0
    /\ now > 0

----------------------------------------------------------------------------
(* C5 *)

ValidPerson(p) == p.weight_kg > 0 /\ PersonR(p) > 0 /\ PersonBeta(p) > 0
ValidDrink(d) == d.ounces >= 0 /\ d.alc_percent >= 0 /\ d.alc_percent <= 100

\* C5: even for a valid person and valid drinks: when the BAC is positive,
\* then with no further drink the BAC at now + time_to_sober(now) is 0, and
\* not above the BAC at now.
C5_SoberAtProjectedTime ==
    LET bac == current_bac(person, drinks, now)
        tts == time_to_sober(person, drinks, now)
    IN  (ValidPerson(person) /\ (\A i \in DrinkIndexes : ValidDrink(drinks[i]))
           /\ bac.value > 0) =>
           LET later == current_bac(person, drinks, now + tts.value)
           IN  later.value = 0 /\ later.value <= bac.value

----------------------------------------------------------------------------
(* C6 *)

\* the events of the log that name a drink of the catalog
ResolvedEvents == { i \in 1..Len(consumed) : consumed[i].drink_name \in names_of(app_drinks) }

\* the catalog entry an event names
CatalogEntry(name) == CHOOSE i \in 1..Len(app_drinks) : app_drinks[i].name = name

\* volume_ml * (percent_abv / 100) * density * quantity of event i, in mg
EventGrams(i) ==
    LET d == app_drinks[CatalogEntry(consumed[i].drink_name)]
    IN  Quot(d.volume_ml * d.percent_abv * ALCOHOL_DENSITY, 10) * consumed[i].quantity

RECURSIVE SumEventGrams(_)
SumEventGrams(S) ==
    IF S = {} THEN 0
    ELSE LET i == CHOOSE i \in S : TRUE
         IN  EventGrams(i) + SumEventGrams(S \ {i})

\* a step that takes names out of the catalog
CatalogShrinks ==
    /\ names_of(app_drinks') # names_of(app_drinks)
    /\ names_of(app_drinks') \subseteq names_of(app_drinks)

\* C6: total_alcohol_grams is the sum, over exactly the events whose drink is
\* in the catalog, of volume * abv/100 * density * quantity (an event naming
\* an absent drink adds 0); and a step that deletes a catalog entry leaves the
\* consumption log as it was, removing nothing but entries of that name.
C6_UnresolvedSkippedNotCascaded ==
    /\ [](total_alcohol_grams(consumed, app_drinks) = SumEventGrams(ResolvedEvents))
    /\ [][CatalogShrinks =>
             /\ consumed' = consumed
             /\ \E name \in names_of(app_drinks) :
                    app_drinks' = without_name(app_drinks, name)]_vars

\* calculate ran over a log holding an event whose drink is still in the
\* catalog and an event whose drink was deleted from it
C6_Witness ==
    /\ app_out.op = "calculate"
    /\ ResolvedEvents # {}
    /\ \E i \in 1..Len(consumed) : i \notin ResolvedEvents
    /\ total_alcohol_grams(consumed, app_drinks) # 0

----------------------------------------------------------------------------
(* C7 *)

\* C7: a drink whose timestamp is at or after now contributes exactly 0 to
\* current_bac and raises no error; a session holding only such drinks has a
\* current BAC of 0.
C7_FutureDrinkContributesZero ==
    program = "bac_tracker" =>
       /\ \A i \in DrinkIndexes :
             drinks[i].time >= now =>
                contribution_from_drink(person, drinks[i], now) = Value(0)
       /\ (drinks # <<>> /\ \A i \in DrinkIndexes : drinks[i].time >= now) =>
             current_bac(person, drinks, now) = Value(0)

----------------------------------------------------------------------------
(* C8 *)

\* a step that appends to the log an event dated after the current clock
FutureEventLogged ==
    /\ Len(consumed') = Len(consumed) + 1
    /\ SubSeq(consumed', 1, Len(consumed)) = consumed
    /\ consumed'[Len(consumed')].timestamp_iso > now
    /\ now' = now /\ app_drinks' = app_drinks

\* the four models and their mean for profile p over log cs, or "raised"
ModelValues(p, cs, b60) ==
    LET o == calculate_output(p, cs, app_drinks, b60, now)
    IN  IF o.raised THEN <<"raised">> ELSE <<o.mm, o.fr, o.lw, o.nh, o.current_bac>>

\* no model reports more after the step than before it, and none starts to raise
NoModelIncreases(p, b60) ==
    LET before == ModelValues(p, consumed, b60)
        after == ModelValues(p, consumed', b60)
    IN  IF before = <<"raised">> THEN TRUE
        ELSE /\ after # <<"raised">>
             /\ \A k \in 1..5 : after[k] <= before[k]

\* C8 as stated: logging a future-dated event does not raise and does not
\* increase the BAC reported by matthews_miller, forrest, lewis, nhtsa or their
\* mean.
C8_FutureEventDoesNotIncreaseBac ==
    [][FutureEventLogged =>
          \A p \in KnownProfiles, b60 \in Beta60Inputs : NoModelIncreases(p, b60)]_vars

\* the log with its last event dated at t
LastEventAt(cs, t) == [cs EXCEPT ![Len(cs)].timestamp_iso = t]

\* C8 amended: a future-dated event is tolerated, but only the elapsed time is
\* clamped: hours_since_first_sip is >= 0 in every state and logging the event
\* leaves it as it was, the event's alcohol counts in full in the total, no
\* model starts to raise, and each model and the mean report what they would
\* report had the event been logged at the current clock value.
C8_FutureEventCountsInFull ==
    /\ [](hours_since_first_sip(consumed, now) >= 0)
    /\ [][FutureEventLogged =>
             /\ hours_since_first_sip(consumed', now) = hours_since_first_sip(consumed, now)
             /\ total_alcohol_grams(consumed', app_drinks)
                   = total_alcohol_grams(consumed, app_drinks)
                       + total_alcohol_grams(<<consumed'[Len(consumed')]>>, app_drinks)
             /\ \A p \in KnownProfiles, b60 \in Beta60Inputs :
                   /\ ModelValues(p, consumed', b60)
                         = ModelValues(p, LastEventAt(consumed', now), b60)
                   /\ (ModelValues(p, consumed', b60) = <<"raised">>)
                         = (ModelValues(p, consumed, b60) = <<"raised">>)]_vars

\* calculate ran over a log all of whose events are dated after the clock,
\* and reported a positive BAC at zero elapsed time
C8_Witness ==
    /\ app_out.op = "calculate"
    /\ ~app_out.raised
    /\ consumed # <<>>
    /\ \A i \in 1..Len(consumed) : consumed[i].timestamp_iso > now
    /\ app_out.t_hours = 0
    /\ app_out.current_bac > 0

----------------------------------------------------------------------------
(* C9 *)

\* the instants examined around a drink: every minute from before its
\* timestamp to after the end of its absorption window, and an hour later
InstantsAround(drink) ==
    LET end == drink.time + drink.absorption_time_min
    IN  ((drink.time - 2)..(end + 2)) \cup {end + 60}

\* the properties of the absorbed fraction of drink d at instant t
FractionProperties(d, t) ==
    LET frac == frac_absorbed(d, t)
    IN  /\ t <= d.time => frac = 0
        /\ frac >= 0 /\ frac <= FRAC_ONE
        /\ frac <= frac_absorbed(d, t + 1)
        /\ t - d.time >= d.absorption_time_min => frac = FRAC_ONE

\* C9: the window W of every recorded drink is > 0, and its absorbed fraction
\* is 0 at every instant at or before the drink's timestamp, lies within
\* [0, 1], does not decrease from one minute to the next, and is exactly 1 at
\* every instant W minutes or more after the timestamp. It is examined at now
\* for every drink, and at every instant around the drink when the drink is
\* the last one recorded, as every drink is when add_drink has appended it.
C9_AbsorptionFraction ==
    /\ \A i \in DrinkIndexes :
          /\ drinks[i].absorption_time_min > 0
          /\ FractionProperties(drinks[i], now)
    /\ drinks # <<>> =>
          \A t \in InstantsAround(drinks[Len(drinks)]) :
             FractionProperties(drinks[Len(drinks)], t)

\* a summary was reported while one drink was past its window, another was
\* part-way through its window and a third instant lay before a drink's time
C9_Witness ==
    /\ out.op = "summary"
    /\ \E i \in DrinkIndexes : now - drinks[i].time >= drinks[i].absorption_time_min
    /\ \E i \in DrinkIndexes :
          /\ now > drinks[i].time
          /\ now - drinks[i].time < drinks[i].absorption_time_min
          /\ frac_absorbed(drinks[i], now) > 0
          /\ frac_absorbed(drinks[i], now) < FRAC_ONE

----------------------------------------------------------------------------
(* C10 *)

\* C10: every logged drink has volume >= 0 and ABV within [0, 100], every
\* profile has weight > 0, every catalog entry has volume > 0 and ABV within
\* [0, 100], in every reachable state; and a step that starts a session
\* starts it for a person of weight > 0.
C10_OutOfRangeRejected ==
    /\ [](/\ \A i \in DrinkIndexes :
               /\ drinks[i].ounces >= 0
               /\ drinks[i].alc_percent >= 0 /\ drinks[i].alc_percent <= 100
          /\ \A i \in 1..Len(profiles) : profiles[i].weight_kg > 0
          /\ \A i \in 1..Len(app_drinks) :
               /\ app_drinks[i].volume_ml > 0
               /\ app_drinks[i].percent_abv >= 0 /\ app_drinks[i].percent_abv <= 100)
    /\ [][person' # person => person'.weight_kg > 0]_vars

----------------------------------------------------------------------------
(* C11 *)

\* C11: every event in the consumption log has a quantity > 0 in every
\* reachable state, so that an attempt to log a quantity <= 0 leaves the log
\* as it was.
C11_QuantityValidated ==
    \A i \in 1..Len(consumed) : consumed[i].quantity > 0

----------------------------------------------------------------------------
(* C12 *)

\* the scenario's profile: 80 kg, male, 25, not eaten
ScenarioPerson == Person(80, "male", 25, FALSE, None, None)

\* the scenario's drink, 12 oz (355 ml) at 5 %, taken 60 minutes ago
ScenarioDrink == Drink(12, 5, now - 60, 40)

\* the scenario's value for a distribution ratio of r hundredths: the whole
\* drink over 80 kg * r, less 40 minutes of elimination at the default rate
ScenarioBac(r) ==
    Quot(grams_alcohol(12, 5) * 10000, 80 * r) - Quot(DEFAULT_BETA * 40, 60)

\* a summary was reported for the scenario
ScenarioReported ==
    /\ program = "bac_tracker"
    /\ out.op = "summary"
    /\ person = ScenarioPerson
    /\ drinks = <<ScenarioDrink>>

\* C12 as stated: in the scenario current_bac is the fully absorbed drink at
\* a male distribution ratio of 0.73, less the elimination over the 40
\* minutes since the midpoint t0 + 20 minutes.
C12_ScenarioAtRatio73 == ScenarioReported => out.bac = Value(ScenarioBac(73))

\* C12 amended: in the scenario current_bac is the fully absorbed drink at a
\* male distribution ratio of 0.68, less the elimination over the 40
\* minutes since the midpoint t0 + 20 minutes.
C12_ScenarioAtRatio68 ==
    ScenarioReported =>
        /\ frac_absorbed(ScenarioDrink, now) = FRAC_ONE
        /\ hours_since_midpoint(ScenarioDrink, now) = 2 * FRAC_ONE * 40
        /\ out.bac = Value(ScenarioBac(68))

C12_Witness == ScenarioReported /\ out.bac = Value(15727)

----------------------------------------------------------------------------
(* C13 *)

\* the longest time since any event of log cs, not below 0
ElapsedSinceEarliest(cs) ==
    LET ages == { now - cs[i].timestamp_iso : i \in 1..Len(cs) } \cup {0}
    IN  CHOOSE a \in ages : \A b \in ages : b <= a

\* the figures of the last calculation are the four models at elapsed time t
ModelsShareTimeBase(t) ==
    LET p == selected_profile[1]
        b == app_out.beta
    IN  /\ app_out.mm = matthews_miller(consumed, app_drinks, p, b, t).value
        /\ app_out.fr = forrest(consumed, app_drinks, p, b, t).value
        /\ app_out.lw = lewis(consumed, app_drinks, p, b, t).value
        /\ app_out.nh = nhtsa(consumed, app_drinks, p, b, t).value

\* C13: the elapsed time is 0 for an empty log, never negative, and for any
\* log the time since its earliest timestamp wherever that event stands in
\* the log, clamped at 0; a calculation uses that value, and the four model
\* figures it reports are the models evaluated at that one value.
C13_ElapsedSinceEarliestEvent ==
    /\ hours_since_first_sip(<<>>, now) = 0
    /\ hours_since_first_sip(consumed, now) >= 0
    /\ hours_since_first_sip(consumed, now) = ElapsedSinceEarliest(consumed)
    /\ app_out.op = "calculate" =>
          /\ app_out.t_hours = ElapsedSinceEarliest(consumed)
          /\ ~app_out.raised => ModelsShareTimeBase(ElapsedSinceEarliest(consumed))

\* a calculation was made, with a positive elapsed time and a positive
\* figure, on a log whose earliest event was not the first one logged
C13_Witness ==
    /\ app_out.op = "calculate"
    /\ ~app_out.raised
    /\ Len(consumed) = 2
    /\ consumed[2].timestamp_iso < consumed[1].timestamp_iso
    /\ app_out.t_hours = now - consumed[2].timestamp_iso
    /\ app_out.t_hours > 0
    /\ app_out.lw > 0

----------------------------------------------------------------------------
(* C14 *)

----------------------------------------------------------------------------
(* C15 *)

\* a start with three empty lists and no exception
StartsEmpty == [error |-> "none", profiles |-> <<>>, drinks |-> <<>>, consumed |-> <<>>]

\* C15: a missing file and a file that is not JSON start the application
\* with three empty lists, and no start ends in an exception, whatever the
\* file holds.
C15_StartupLoadNeverFails ==
    /\ load_state(MissingFile) = StartsEmpty
    /\ load_state(UnparsableFile) = StartsEmpty
    /\ window # "failed"

----------------------------------------------------------------------------
(* C16 *)

\* no two entries of the list share a name
NoDuplicateNames(list) ==
    \A i, j \in 1..Len(list) : list[i].name = list[j].name => i = j

\* one entry was replaced by an entry of the same name, where it stood
ReplacedInPlace(old, new) ==
    /\ Len(new) = Len(old)
    /\ \E i \in 1..Len(old) :
          /\ new[i].name = old[i].name
          /\ \A j \in 1..Len(old) : j # i => new[j] = old[j]

\* exactly one entry, of a name the list did not hold, was added at the end
AppendedNewName(old, new) ==
    /\ Len(new) = Len(old) + 1
    /\ \A j \in 1..Len(old) : new[j] = old[j]
    /\ \A j \in 1..Len(old) : old[j].name # new[Len(new)].name

\* the entries of one name were removed, the others kept in order
DeletedByName(old, new) ==
    \E name \in { old[i].name : i \in 1..Len(old) } :
        new = SelectSeq(old, LAMBDA x : x.name # name)

\* what a step may do to a list keyed by name
KeyedStep(old, new) ==
    \/ new = old
    \/ ReplacedInPlace(old, new)
    \/ AppendedNewName(old, new)
    \/ DeletedByName(old, new)

\* C16: no two profiles and no two catalog entries share a name in any
\* reachable state, and every step that changes one of the two lists
\* replaces an entry by one of the same name at the same position, or
\* appends exactly one entry of a name not yet in the list, or deletes by name.
C16_NameIsUniqueKey ==
    /\ [](NoDuplicateNames(profiles) /\ NoDuplicateNames(app_drinks))
    /\ [][KeyedStep(profiles, profiles') /\ KeyedStep(app_drinks, app_drinks')]_vars

\* the profile the file held was replaced by another of its name, and the
\* catalog holds two names in an order that took a deletion and two additions
C16_Witness ==
    /\ window = "open"
    /\ Len(profiles) = 1
    /\ profiles[1].name = "ann" /\ profiles[1].weight_kg = 0
    /\ Len(app_drinks) = 2
    /\ app_drinks[1].name = "shot" /\ app_drinks[2].name = "beer"

----------------------------------------------------------------------------
(* C17 *)

\* ages below, at and above 30, at and beyond the age where the cap sets in
AgeProbes == {0, 25, 30, 31, 50, 100, 154, 155, 156, 200}

\* the person of the session at another age
AtAge(a) == [person EXCEPT !.age = a]

\* the base rate of the session's person
BaseRate == IF person.custom_beta # None THEN person.custom_beta[1] ELSE DEFAULT_BETA

\* the reduction for age a, in thousandths: 0.002 per year over 30, at most 0.25
AgeReduction(a) == IF 2 * (a - 30) < 250 THEN 2 * (a - 30) ELSE 250

\* the base unchanged up to 30, base * (1 - reduction) above
BetaFollowsFormula ==
    \A a \in AgeProbes :
        PersonBeta(AtAge(a)) =
            IF a <= 30 THEN BaseRate
            ELSE Quot(BaseRate * (1000 - AgeReduction(a)), 1000)

\* non-increasing in age and never below 75 % of the base
BetaFallsToThreeQuarters ==
    /\ \A a, b \in AgeProbes : a <= b => PersonBeta(AtAge(b)) <= PersonBeta(AtAge(a))
    /\ \A a \in AgeProbes : 4 * PersonBeta(AtAge(a)) >= 3 * BaseRate

\* age 50 with the base 0.015 gives 0.0144
BetaAtFifty ==
    PersonBeta(Person(80, "male", 50, FALSE, None, Some(15000))) = 14400

\* C17 as stated: for every age and base rate beta follows the formula, is
\* non-increasing in age and never below 75 % of the base, and age 50 with
\* base 0.015 gives 0.0144.
C17_BetaNonIncreasingForEveryBase ==
    program = "bac_tracker" =>
        BetaFollowsFormula /\ BetaFallsToThreeQuarters /\ BetaAtFifty

\* C17 amended: for every age and base rate beta follows the formula, and
\* age 50 with base 0.015 gives 0.0144; for a base rate >= 0 it is
\* non-increasing in age and never below 75 % of the base.
C17_BetaNonIncreasingForBaseNotNegative ==
    program = "bac_tracker" =>
        /\ BetaFollowsFormula
        /\ BaseRate >= 0 => BetaFallsToThreeQuarters
        /\ BetaAtFifty

\* a summary was reported for a person over 30 whose rate the adjustment
\* lowered, and the time to sober was computed from the lowered rate
C17_Witness ==
    /\ program = "bac_tracker"
    /\ out.op = "summary"
    /\ person.age = 50
    /\ BaseRate = DEFAULT_BETA
    /\ PersonBeta(person) = 14400
    /\ ~Raised(out.bac) /\ out.bac.value > 0
    /\ out.tts = Value(Quot(out.bac.value * 60, 14400))

----------------------------------------------------------------------------
(* C18 *)

\* the log without its k-th event (1-based), the others in their order
WithoutEvent(cs, k) == SubSeq(cs, 1, k - 1) \o SubSeq(cs, k + 1, Len(cs))

\* one event was added at the end and the others were left as they were
AppendedAtEnd(old, new) ==
    /\ Len(new) = Len(old) + 1
    /\ SubSeq(new, 1, Len(old)) = old

\* the step logged an event of that quantity through one of the two add handlers
AddStep(qty) ==
    \/ add_consumed_now(qty)
    \/ \E entry \in CustomEntries : entry[1] = qty /\ add_consumed_custom(qty, entry[2])

\* the step calculated, was rejected, edited the profiles or the catalog, changed a
\* selection, closed the window or let time pass
OtherHandlerStep ==
    \/ app_out'.op = "calculate"
    \/ app_out'.msg \in {"Profile", "Consumed", "Invalid input", "Missing"}
    \/ profiles' # profiles
    \/ app_drinks' # app_drinks
    \/ selected_profile' # selected_profile
    \/ drink_cb' # drink_cb
    \/ window' # window
    \/ now' # now

\* C18: every step leaves the log as it was, or appends one event at its
\* end, or removes one event and keeps the others in order, or empties it;
\* an add with a drink selected appends an event of that drink and quantity
\* at the end whatever its timestamp, remove_selected removes exactly the
\* selected row, clear_consumed empties the log, and a step of any other
\* handler leaves the log as it was.
C18_LogAppendRemoveOnly ==
    [][/\ \/ consumed' = consumed
          \/ AppendedAtEnd(consumed, consumed')
          \/ \E k \in 1..Len(consumed) : consumed' = WithoutEvent(consumed, k)
          \/ consumed' = <<>>
       /\ OtherHandlerStep => consumed' = consumed
       /\ ~OtherHandlerStep =>
             /\ \A qty \in Quantities :
                   (drink_cb # "" /\ AddStep(qty)) =>
                       /\ AppendedAtEnd(consumed, consumed')
                       /\ consumed'[Len(consumed')].drink_name = drink_cb
                       /\ consumed'[Len(consumed')].quantity = qty
                       /\ consumed'[Len(consumed')].timestamp_iso
                             \in {now} \cup { entry[2] : entry \in CustomEntries }
             /\ \A idx \in 0..(MaxConsumed - 1) :
                   remove_selected(idx) => consumed' = WithoutEvent(consumed, idx + 1)
             /\ clear_consumed => consumed' = <<>>
      ]_vars

\* the event the file held was removed and two events were logged, the
\* first of them with the later timestamp
C18_Witness ==
    /\ window = "open"
    /\ Len(consumed) = 2
    /\ \A i \in 1..2 : consumed[i].timestamp_iso >= 0
    /\ consumed[1].timestamp_iso > consumed[2].timestamp_iso

----------------------------------------------------------------------------
(* C19 *)

\* C19: in every reachable state selected_profile is None or one of the
\* records in the profiles list.
C19_SelectedProfileIsStored ==
    \/ selected_profile = None
    \/ \E i \in 1..Len(profiles) : profiles[i] = selected_profile[1]

----------------------------------------------------------------------------
(* C20 *)

\* the positions of the events whose drink name is not in the catalog
UnresolvedEvents ==
    { i \in 1..Len(consumed) : drink_lookup(app_drinks, consumed[i].drink_name) = None }

\* C20: the four model figures and their mean that a calculation reports are
\* the figures of the same calculation on the log without any one of its
\* unresolved events, whenever that shorter log can be calculated at all.
C20_UnresolvedEventHasNoEffect ==
    (app_out.op = "calculate" /\ ~app_out.raised) =>
        \A i \in UnresolvedEvents :
            WithoutEvent(consumed, i) # <<>> =>
                ModelValues(selected_profile[1], WithoutEvent(consumed, i), app_out.beta)
                    = <<app_out.mm, app_out.fr, app_out.lw, app_out.nh, app_out.current_bac>>

----------------------------------------------------------------------------
(* C21 *)

\* every recorded drink is past its absorption window at t
FullyAbsorbed(t) ==
    \A i \in DrinkIndexes : t - drinks[i].time >= drinks[i].absorption_time_min

\* current_bac of the session at t
BacAt(t) == current_bac(person, drinks, t)

\* the instants from now up to the next step of the clock, minute by minute
LaterTimes == { t \in now..(now + MaxWait) : \E dt \in Steps : t < now + dt }

\* from t to t + 1 the BAC does not rise
NotRisingAfter(t) == BacAt(t + 1).value <= BacAt(t).value

\* C21: in a session whose person has beta > 0, weight > 0 and r > 0, once
\* no further drink is recorded and the clock advances, current_bac
\* eventually is 0 and stays 0; whatever the log holds it is 0 MaxWait
\* minutes from now; and from the instant every recorded drink is past its
\* absorption window it never rises from one minute to the next, nor over a
\* step of the clock.
C21_EventualSobriety ==
    /\ <>[](ValidPerson(person) => BacAt(now) = Value(0))
    /\ [](ValidPerson(person) =>
            /\ BacAt(now + MaxWait) = Value(0)
            /\ \A t \in LaterTimes : FullyAbsorbed(t) => NotRisingAfter(t))
    /\ [][(ValidPerson(person) /\ Wait /\ FullyAbsorbed(now)) =>
              current_bac(person', drinks', now').value <= BacAt(now).value]_vars

\* two drinks of 12 oz at 5% were recorded, both are absorbed, the BAC was
\* positive at an earlier instant after their absorption and the session
\* now reports 0
C21_Witness ==
    /\ ValidPerson(person)
    /\ Len(drinks) = 2
    /\ \A i \in DrinkIndexes : drinks[i].ounces > 0
    /\ FullyAbsorbed(now)
    /\ \E t \in 0..now : FullyAbsorbed(t) /\ BacAt(t).value > 0
    /\ out.op = "summary"
    /\ out.bac = Value(0)

====
